---- MODULE Spec2Model ----
(***************************************************************************)
(* Trace ingestion of promptflow-devkit (promptflow/_sdk/entities/_trace.py)*)
(* Span._persist run by concurrent workers against the LineRun, Event and  *)
(* Span tables.  Every store call is one atomic step of a worker.          *)
(***************************************************************************)
EXTENDS Integers, Sequences, FiniteSets, TLC

\* ------------------------------------------------------------------ bounds
NumWorkers == 2
MaxRepeats == 1
\* store calls that fail, over all workers
MaxFailures == 1
\* Event rows that go missing from table events
MaxLost == 1
\* calls of _load_events on one Span object
MaxLoads == 2

Workers == 1..NumWorkers

\* ------------------------------------------------- Optional[...] and dicts
None == <<>>
Some(v) == <<v>>

EmptyDict == [k \in {} |-> None]
Has(d, k) == k \in DOMAIN d
\* dict.get(k, default) as an Optional
Get(d, k) == IF k \in DOMAIN d THEN Some(d[k]) ELSE None
\* d1 | d2 (d2 wins)
Merge(d1, d2) == [k \in (DOMAIN d1) \cup (DOMAIN d2) |-> IF k \in DOMAIN d2 THEN d2[k] ELSE d1[k]]

\* ------------------------------------------------- imported constants
RUNNING_LINE_RUN_STATUS == "Running"
SPAN_EVENTS_ATTRIBUTES_EVENT_ID == "event.id"
SPAN_EVENTS_ATTRIBUTE_PAYLOAD == "payload"
SPAN_EVENTS_NAME_PF_INPUTS == "promptflow.function.inputs"
SPAN_EVENTS_NAME_PF_OUTPUT == "promptflow.function.output"
TRACE_DEFAULT_COLLECTION == "default"
LINE_RUN_ID == "line_run_id"
REFERENCED_LINE_RUN_ID == "referenced.line_run_id"
REFERENCED_BATCH_RUN_ID == "referenced.batch_run_id"
BATCH_RUN_ID == "batch_run_id"
LINE_NUMBER == "line_number"
SESSION_ID == "session_id"
SPAN_TYPE == "span_type"
COMPLETION_TOKEN_COUNT == "__computed__.cumulative_token_count.completion"
PROMPT_TOKEN_COUNT == "__computed__.cumulative_token_count.prompt"
TOTAL_TOKEN_COUNT == "__computed__.cumulative_token_count.total"
RES_ATTRIBUTES == "attributes"
RES_COLLECTION == "collection"
RES_EXPERIMENT == "experiment.name"

\* ------------------------------------------------- json.dumps / json.loads
\* JSON text is a tagged tree: a quoted string, or an object whose members
\* are (key, text) pairs in the dict's key order.
JStr(s) == <<"str", s>>
JObj(members) == <<"obj", members>>

\* key order of the dicts that are serialised (dicts keep insertion order)
KeyOrder == <<"name", "timestamp", "attributes", SPAN_EVENTS_ATTRIBUTE_PAYLOAD,
              SPAN_EVENTS_ATTRIBUTES_EVENT_ID, "exception.message", "question", "answer">>

KeysOf(d) == SelectSeq(KeyOrder, LAMBDA k : k \in DOMAIN d)

\* json.dumps of a flat dict of strings
json_dumps_dict(d) ==
    JObj([n \in 1..Len(KeysOf(d)) |-> <<KeysOf(d)[n], JStr(d[KeysOf(d)[n]])>>])

\* json.dumps(event), event = {name, timestamp, attributes}
json_dumps(event) ==
    JObj(<< <<"name", JStr(event["name"])>>,
            <<"timestamp", JStr(event["timestamp"])>>,
            <<"attributes", json_dumps_dict(event["attributes"])>> >>)

RECURSIVE json_loads(_)
json_loads(text) ==
    IF text[1] = "str" THEN text[2]
    ELSE LET ms == text[2]
             member(k) == CHOOSE n \in 1..Len(ms) : ms[n][1] = k
         IN  [k \in {ms[n][1] : n \in 1..Len(ms)} |-> json_loads(ms[member(k)][2])]

\* ------------------------------------------------- spans received
PInputs == JObj(<< <<"question", JStr("hi")>> >>)
POutput == JObj(<< <<"answer", JStr("ok")>> >>)

EvInputs == [name |-> SPAN_EVENTS_NAME_PF_INPUTS, timestamp |-> "ts1",
             attributes |-> [k \in {SPAN_EVENTS_ATTRIBUTE_PAYLOAD} |-> PInputs]]
EvOutput == [name |-> SPAN_EVENTS_NAME_PF_OUTPUT, timestamp |-> "ts2",
             attributes |-> [k \in {SPAN_EVENTS_ATTRIBUTE_PAYLOAD} |-> POutput]]
EvException == [name |-> "exception", timestamp |-> "ts3",
                attributes |-> [k \in {"exception.message"} |-> "boom"]]

TraceIds == <<"t1", "t2">>
ParentIds == <<None, Some("p0")>>

\* what a decoded span carries besides its ids
Profiles ==
    << [name |-> "flow", kind |-> "SPAN_KIND_INTERNAL", start_time |-> 10, end_time |-> 12,
       status_code |-> "Ok",
       attributes |-> [k \in {SPAN_TYPE, PROMPT_TOKEN_COUNT, TOTAL_TOKEN_COUNT,
                               REFERENCED_LINE_RUN_ID, REFERENCED_BATCH_RUN_ID, LINE_NUMBER} |->
                          CASE k = SPAN_TYPE -> "Flow"
                            [] k = PROMPT_TOKEN_COUNT -> 5
                            [] k = TOTAL_TOKEN_COUNT -> 8
                            [] k = REFERENCED_LINE_RUN_ID -> "lr0"
                            [] k = REFERENCED_BATCH_RUN_ID -> "run1"
                            [] OTHER -> 2],
       events |-> <<EvInputs, EvOutput>>,
       resource |-> [k \in {RES_ATTRIBUTES} |->
                        [j \in {RES_COLLECTION, RES_EXPERIMENT} |-> IF j = RES_COLLECTION THEN "c1" ELSE "exp"]]],
      [name |-> "llm", kind |-> "SPAN_KIND_CLIENT", start_time |-> 11, end_time |-> 14,
       status_code |-> "Error",
       attributes |-> [k \in {LINE_RUN_ID, REFERENCED_BATCH_RUN_ID, LINE_NUMBER} |->
                          CASE k = LINE_RUN_ID -> "t1"
                            [] k = REFERENCED_BATCH_RUN_ID -> "run1"
                            [] OTHER -> 2],
       events |-> <<EvException>>,
       resource |-> EmptyDict],
      [name |-> "tool", kind |-> "SPAN_KIND_INTERNAL", start_time |-> 11, end_time |-> 11,
       status_code |-> "Unset",
       attributes |-> [k \in {TOTAL_TOKEN_COUNT, BATCH_RUN_ID, LINE_NUMBER} |->
                          CASE k = TOTAL_TOKEN_COUNT -> 0
                            [] k = BATCH_RUN_ID -> "run1"
                            [] OTHER -> 2],
       events |-> <<>>,
       resource |-> EmptyDict] >>

\* Span.__init__
Span(trace_id, span_id, parent_id, p) ==
    [trace_id |-> trace_id, span_id |-> span_id, name |-> p.name,
     context |-> [trace_id |-> trace_id, span_id |-> span_id],
     kind |-> p.kind, parent_id |-> parent_id,
     start_time |-> p.start_time, end_time |-> p.end_time,
     status |-> [status_code |-> p.status_code, description |-> ""],
     attributes |-> p.attributes, links |-> <<>>, events |-> p.events,
     resource |-> p.resource, _external_event_ids |-> <<>>]

SpanIdOf(w) == <<"s1", "s2", "s3", "s4">>[w]

\* the spans a worker may receive, numbered
SpanChoices ==
    LET triples == {<<t, par, p>> : t \in 1..Len(TraceIds), par \in 1..Len(ParentIds), p \in 1..Len(Profiles)}
        num(x) == ((x[1] - 1) * Len(ParentIds) + (x[2] - 1)) * Len(Profiles) + x[3]
    IN  [n \in 1..Cardinality(triples) |-> CHOOSE x \in triples : num(x) = n]

SpanInput(w, n) ==
    Span(TraceIds[SpanChoices[n][1]], SpanIdOf(w), ParentIds[SpanChoices[n][2]], Profiles[SpanChoices[n][3]])

\* ------------------------------------------------- LineRun store (table line_runs)
\* rows in insertion order; get returns the first row of the id
LineRunIdx(tbl, id) == {n \in 1..Len(tbl) : tbl[n].line_run_id = id}
LineRunFound(tbl, id) == LineRunIdx(tbl, id) # {}
ORMLineRun_get(tbl, id) == tbl[CHOOSE n \in LineRunIdx(tbl, id) : \A m \in LineRunIdx(tbl, id) : n <= m]

\* create: the row is added
ORMLineRun_persist(tbl, row) == Append(tbl, row)

\* update: the authoritative fields of the stored line run are overwritten
UpdatedFields == {"root_span_id", "inputs", "outputs", "end_time", "status", "duration",
                  "name", "kind", "cumulative_token_count"}
ORMLineRun_update(tbl, row) ==
    [n \in 1..Len(tbl) |->
        IF tbl[n].line_run_id = row.line_run_id
        THEN [f \in DOMAIN tbl[n] |-> IF f \in UpdatedFields THEN row[f] ELSE tbl[n][f]]
        ELSE tbl[n]]

ORMLineRun_get_with_run_and_line_number(tbl, run, line_number) ==
    LET idx == {n \in 1..Len(tbl) : tbl[n].run = Some(run) /\ tbl[n].line_number = Some(line_number)}
    IN  IF idx = {} THEN None ELSE Some(tbl[CHOOSE n \in idx : \A m \in idx : n <= m])

\* ------------------------------------------------- LineRun
\* the attribute is ignored
_determine_line_run_id_trace(span) == span.trace_id

_determine_line_run_id(span) ==
    IF Has(span.attributes, LINE_RUN_ID) THEN span.attributes[LINE_RUN_ID] ELSE span.trace_id

\* the batch run lookup comes first
_determine_parent_id_batch_first(span, tbl) ==
    IF Has(span.attributes, REFERENCED_BATCH_RUN_ID)
    THEN LET line_run == ORMLineRun_get_with_run_and_line_number(
                             tbl, span.attributes[REFERENCED_BATCH_RUN_ID], span.attributes[LINE_NUMBER])
         IN  IF line_run # None THEN Some(line_run[1].line_run_id) ELSE None
    ELSE IF Has(span.attributes, REFERENCED_LINE_RUN_ID)
         THEN Some(span.attributes[REFERENCED_LINE_RUN_ID])
         ELSE None

_determine_parent_id(span, tbl) ==
    IF Has(span.attributes, REFERENCED_LINE_RUN_ID) THEN Some(span.attributes[REFERENCED_LINE_RUN_ID])
    ELSE IF Has(span.attributes, REFERENCED_BATCH_RUN_ID)
         THEN LET line_run == ORMLineRun_get_with_run_and_line_number(
                                  tbl, span.attributes[REFERENCED_BATCH_RUN_ID], span.attributes[LINE_NUMBER])
              IN  IF line_run # None THEN Some(line_run[1].line_run_id) ELSE None
         ELSE None

_parse_common_args(span, tbl) ==
    LET resource_attributes == IF Has(span.resource, RES_ATTRIBUTES) THEN span.resource[RES_ATTRIBUTES] ELSE EmptyDict
    IN  [line_run_id |-> _determine_line_run_id(span),
         trace_id |-> span.trace_id,
         start_time |-> span.start_time,
         collection |-> IF Has(resource_attributes, RES_COLLECTION) THEN resource_attributes[RES_COLLECTION]
                        ELSE TRACE_DEFAULT_COLLECTION,
         parent_id |-> _determine_parent_id(span, tbl),
         run |-> Get(span.attributes, BATCH_RUN_ID),
         line_number |-> Get(span.attributes, LINE_NUMBER),
         experiment |-> Get(resource_attributes, RES_EXPERIMENT),
         session_id |-> Get(span.attributes, SESSION_ID)]

\* the placeholder takes the status of the span
_from_non_root_span_status(span, tbl) ==
    Merge([root_span_id |-> None, inputs |-> None, outputs |-> None, end_time |-> None,
           status |-> span.status.status_code, duration |-> None, name |-> None, kind |-> None,
           cumulative_token_count |-> None],
          _parse_common_args(span, tbl))

_from_non_root_span(span, tbl) ==
    Merge([root_span_id |-> None, inputs |-> None, outputs |-> None, end_time |-> None,
           status |-> RUNNING_LINE_RUN_STATUS, duration |-> None, name |-> None, kind |-> None,
           cumulative_token_count |-> None],
          _parse_common_args(span, tbl))

\* first event of the given name, as a set of at most one index
FirstEvent(span, name) ==
    {n \in 1..Len(span.events) :
        /\ span.events[n]["name"] = name
        /\ \A m \in 1..(n - 1) : span.events[m]["name"] # name}

\* the payload lookup raises KeyError when the event has no payload attribute
GetPayloadRaises(span, name) ==
    \E n \in FirstEvent(span, name) : ~Has(span.events[n]["attributes"], SPAN_EVENTS_ATTRIBUTE_PAYLOAD)

GetPayload(span, name) ==
    IF FirstEvent(span, name) = {} THEN None
    ELSE LET n == CHOOSE m \in FirstEvent(span, name) : TRUE
         IN  Some(json_loads(span.events[n]["attributes"][SPAN_EVENTS_ATTRIBUTE_PAYLOAD]))

_get_inputs_from_span(span) == GetPayload(span, SPAN_EVENTS_NAME_PF_INPUTS)
_get_outputs_from_span(span) == GetPayload(span, SPAN_EVENTS_NAME_PF_OUTPUT)

IntAttr(span, k) == IF Has(span.attributes, k) THEN span.attributes[k] ELSE 0

\* a total of zero counts
CumulativeTokenCount_zero(span) ==
    IF IntAttr(span, TOTAL_TOKEN_COUNT) >= 0
    THEN Some([completion |-> IntAttr(span, COMPLETION_TOKEN_COUNT),
               prompt |-> IntAttr(span, PROMPT_TOKEN_COUNT),
               total |-> IntAttr(span, TOTAL_TOKEN_COUNT)])
    ELSE None

CumulativeTokenCount(span) ==
    IF IntAttr(span, TOTAL_TOKEN_COUNT) > 0
    THEN Some([completion |-> IntAttr(span, COMPLETION_TOKEN_COUNT),
               prompt |-> IntAttr(span, PROMPT_TOKEN_COUNT),
               total |-> IntAttr(span, TOTAL_TOKEN_COUNT)])
    ELSE None

\* the status is left at the placeholder value
_from_root_span_running(span, tbl) ==
    Merge([root_span_id |-> Some(span.span_id),
           inputs |-> _get_inputs_from_span(span),
           outputs |-> _get_outputs_from_span(span),
           end_time |-> Some(span.end_time),
           status |-> RUNNING_LINE_RUN_STATUS,
           duration |-> Some(span.end_time - span.start_time),
           name |-> Some(span.name),
           kind |-> IF Has(span.attributes, SPAN_TYPE) THEN Some(span.attributes[SPAN_TYPE]) ELSE Some(span.kind),
           cumulative_token_count |-> CumulativeTokenCount(span)],
          _parse_common_args(span, tbl))

_from_root_span(span, tbl) ==
    Merge([root_span_id |-> Some(span.span_id),
           inputs |-> _get_inputs_from_span(span),
           outputs |-> _get_outputs_from_span(span),
           end_time |-> Some(span.end_time),
           status |-> span.status.status_code,
           duration |-> Some(span.end_time - span.start_time),
           name |-> Some(span.name),
           kind |-> IF Has(span.attributes, SPAN_TYPE) THEN Some(span.attributes[SPAN_TYPE]) ELSE Some(span.kind),
           cumulative_token_count |-> CumulativeTokenCount(span)],
          _parse_common_args(span, tbl))

_from_root_span_raises(span) ==
    GetPayloadRaises(span, SPAN_EVENTS_NAME_PF_INPUTS) \/ GetPayloadRaises(span, SPAN_EVENTS_NAME_PF_OUTPUT)

\* the upsert of one LineRun object: `found` is the outcome of ORMLineRun.get,
\* `call` the store write that follows it ("none" when there is none)
\* a found row is overwritten
_try_create_overwrite(self, found, tbl) ==
    IF found THEN [tbl |-> ORMLineRun_update(tbl, self), call |-> "update"]
    ELSE [tbl |-> ORMLineRun_persist(tbl, self), call |-> "create"]

_try_create(self, found, tbl) ==
    IF found THEN [tbl |-> tbl, call |-> "none"]
    ELSE [tbl |-> ORMLineRun_persist(tbl, self), call |-> "create"]

\* LineRunNotFoundError is not caught
_try_update_no_except(self, found, tbl) ==
    IF found THEN [tbl |-> ORMLineRun_update(tbl, self), call |-> "update"]
    ELSE [tbl |-> tbl, call |-> "raise"]

\* a found row is left as it is
_try_update_keep(self, found, tbl) ==
    IF found THEN [tbl |-> tbl, call |-> "update"]
    ELSE [tbl |-> ORMLineRun_persist(tbl, self), call |-> "create"]

_try_update(self, found, tbl) ==
    IF found THEN [tbl |-> ORMLineRun_update(tbl, self), call |-> "update"]
    ELSE [tbl |-> ORMLineRun_persist(tbl, self), call |-> "create"]

\* ------------------------------------------------- Span
\* the LineRun object built for the span and the upsert applied to it
\* every span updates
_persist_line_run_update(span, tbl) ==
    IF span.parent_id = None
    THEN [line_run |-> _from_root_span(span, tbl), op |-> "_try_update"]
    ELSE [line_run |-> _from_non_root_span(span, tbl), op |-> "_try_update"]

_persist_line_run(span, tbl) ==
    IF span.parent_id = None
    THEN [line_run |-> _from_root_span(span, tbl), op |-> "_try_update"]
    ELSE [line_run |-> _from_non_root_span(span, tbl), op |-> "_try_create"]

_persist_line_run_raises(span) == span.parent_id = None /\ _from_root_span_raises(span)

\* building the LineRun object reads table line_runs (_determine_parent_id)
ReadsLineRuns(span) ==
    ~Has(span.attributes, REFERENCED_LINE_RUN_ID) /\ Has(span.attributes, REFERENCED_BATCH_RUN_ID)

Upsert(call, found, tbl) ==
    IF call.op = "_try_update" THEN _try_update(call.line_run, found, tbl)
    ELSE _try_create(call.line_run, found, tbl)

\* str(uuid.uuid4()): the n-th id drawn by worker w
UUIDs == << <<"e11", "e12", "e13", "e14", "e15", "e16", "e17", "e18">>,
            <<"e21", "e22", "e23", "e24", "e25", "e26", "e27", "e28">>,
            <<"e31", "e32", "e33", "e34", "e35", "e36", "e37", "e38">>,
            <<"e41", "e42", "e43", "e44", "e45", "e46", "e47", "e48">> >>
\* a worker draws the same id every time
uuid4_same(w, n) == UUIDs[w][1]

uuid4(w, n) == UUIDs[w][n]

\* one iteration of the loop of _persist_events: the Event row written and
\* the span after events[i].attributes is replaced
\* the Event row is written after the attributes are replaced
_persist_events_late(span, i, event_id) ==
    LET s == [span EXCEPT !.events[i]["attributes"] = [k \in {SPAN_EVENTS_ATTRIBUTES_EVENT_ID} |-> event_id]]
    IN  [row |-> [event_id |-> event_id, trace_id |-> span.trace_id, span_id |-> span.span_id,
                  data |-> json_dumps(s.events[i])],
         span |-> s]

\* an event that already holds a reference keeps it
_persist_events_guarded(span, i, event_id) ==
    IF DOMAIN span.events[i]["attributes"] = {SPAN_EVENTS_ATTRIBUTES_EVENT_ID}
    THEN [row |-> [event_id |-> span.events[i]["attributes"][SPAN_EVENTS_ATTRIBUTES_EVENT_ID],
                   trace_id |-> span.trace_id, span_id |-> span.span_id,
                   data |-> json_dumps(span.events[i])],
          span |-> span]
    ELSE [row |-> [event_id |-> event_id, trace_id |-> span.trace_id, span_id |-> span.span_id,
                   data |-> json_dumps(span.events[i])],
          span |-> [span EXCEPT !.events[i]["attributes"] =
                                 [k \in {SPAN_EVENTS_ATTRIBUTES_EVENT_ID} |-> event_id]]]

_persist_events(span, i, event_id) ==
    [row |-> [event_id |-> event_id, trace_id |-> span.trace_id, span_id |-> span.span_id,
              data |-> json_dumps(span.events[i])],
     span |-> [span EXCEPT !.events[i]["attributes"] =
                            [k \in {SPAN_EVENTS_ATTRIBUTES_EVENT_ID} |-> event_id]]]

_to_orm_object(span) ==
    [trace_id |-> span.trace_id, span_id |-> span.span_id, name |-> span.name,
     context |-> span.context, kind |-> span.kind, parent_id |-> span.parent_id,
     start_time |-> span.start_time, end_time |-> span.end_time, status |-> span.status,
     attributes |-> IF DOMAIN span.attributes # {} THEN Some(span.attributes) ELSE None,
     links |-> IF Len(span.links) > 0 THEN Some(span.links) ELSE None,
     events |-> IF Len(span.events) > 0 THEN Some(span.events) ELSE None,
     resource |-> span.resource]

_from_orm_object(obj) ==
    [trace_id |-> obj.trace_id, span_id |-> obj.span_id, name |-> obj.name,
     context |-> obj.context, kind |-> obj.kind, parent_id |-> obj.parent_id,
     start_time |-> obj.start_time, end_time |-> obj.end_time, status |-> obj.status,
     attributes |-> IF obj.attributes # None THEN obj.attributes[1] ELSE EmptyDict,
     links |-> IF obj.links # None THEN obj.links[1] ELSE <<>>,
     events |-> IF obj.events # None THEN obj.events[1] ELSE <<>>,
     resource |-> obj.resource, _external_event_ids |-> <<>>]

\* Event store (table events)
ORMEvent_found(tbl, event_id) == \E r \in tbl : r.event_id = event_id
ORMEvent_get(tbl, event_id) == CHOOSE r \in tbl : r.event_id = event_id
Event_get(tbl, event_id) == json_loads(ORMEvent_get(tbl, event_id).data)
\* Event.get lets the error of ORMEvent.get through
Event_get_raises(tbl, event_id) == ~ORMEvent_found(tbl, event_id)

\* _load_events at the head of its loop, `got` being the local list events:
\* past the last event self.events is assigned (line 117) and the call returns;
\* an event without the event id raises KeyError (line 114) and the call ends
\* with self.events as it was; otherwise Event.get is the next store call
_load_events_loop(span, got) ==
    IF Len(got) = Len(span.events)
    THEN [status |-> "ok", span |-> Some([span EXCEPT !.events = got]), got |-> <<>>]
    ELSE IF ~Has(span.events[Len(got) + 1]["attributes"], SPAN_EVENTS_ATTRIBUTES_EVENT_ID)
         THEN [status |-> "error", span |-> Some(span), got |-> <<>>]
         ELSE [status |-> "loading", span |-> Some(span), got |-> got]

\* an event that cannot be read is kept as it is
_load_events_skips(span, got, tbl) ==
    LET n == Len(got) + 1
        event_id == span.events[n]["attributes"][SPAN_EVENTS_ATTRIBUTES_EVENT_ID]
        s == [span EXCEPT !._external_event_ids = Append(@, event_id)]
    IN  _load_events_loop(s, Append(got, IF Event_get_raises(tbl, event_id) THEN span.events[n]
                                         ELSE Event_get(tbl, event_id)))

\* one iteration of the loop of _load_events: the id is appended to
\* _external_event_ids (line 115) before Event.get of it (line 116), whose
\* error ends the call
_load_events(span, got, tbl) ==
    LET n == Len(got) + 1
        event_id == span.events[n]["attributes"][SPAN_EVENTS_ATTRIBUTES_EVENT_ID]
        s == [span EXCEPT !._external_event_ids = Append(@, event_id)]
    IN  IF Event_get_raises(tbl, event_id)
        THEN [status |-> "error", span |-> Some(s), got |-> <<>>]
        ELSE _load_events_loop(s, Append(got, Event_get(tbl, event_id)))

Without(d, key) == [k \in DOMAIN d \ {key} |-> d[k]]
isoformat(t) == <<"iso", t>>

\* pop(SPAN_EVENTS_ATTRIBUTES_EVENT_ID) raises KeyError
_to_rest_object_raises(span) ==
    /\ Len(span._external_event_ids) = 0
    /\ \E n \in 1..Len(span.events) : ~Has(span.events[n]["attributes"], SPAN_EVENTS_ATTRIBUTES_EVENT_ID)

_to_rest_object(span) ==
    LET lazy == Len(span._external_event_ids) = 0
    IN  [name |-> span.name, context |-> span.context, kind |-> span.kind, parent_id |-> span.parent_id,
         start_time |-> isoformat(span.start_time), end_time |-> isoformat(span.end_time),
         status |-> span.status, attributes |-> span.attributes, links |-> span.links,
         events |-> IF lazy
                    THEN [n \in 1..Len(span.events) |->
                            [span.events[n] EXCEPT !["attributes"] = Without(@, SPAN_EVENTS_ATTRIBUTES_EVENT_ID)]]
                    ELSE span.events,
         resource |-> span.resource,
         external_event_data_uris |->
             IF lazy
             THEN [n \in 1..Len(span.events) |-> span.events[n]["attributes"][SPAN_EVENTS_ATTRIBUTES_EVENT_ID]]
             ELSE span._external_event_ids]

\* the LineRun upsert comes last
_persist_line_run_last == <<"_persist_events", "persist_span", "_persist_line_run">>

\* the span is written before its events
_persist_span_first == <<"_persist_line_run", "persist_span", "_persist_events">>

\* events are persisted first
_persist_events_first == <<"_persist_events", "_persist_line_run", "persist_span">>

\* the steps of Span._persist, in order
_persist == <<"_persist_line_run", "_persist_events", "persist_span">>

StepAfter(step) ==
    LET n == CHOOSE m \in 1..Len(_persist) : _persist[m] = step
    IN  IF n < Len(_persist) THEN _persist[n + 1] ELSE "done"

\* the next store call: the loop of _persist_events makes none for a span without events
Enter(step, s) ==
    IF step = "_persist_events" /\ Len(s.events) = 0 THEN StepAfter(step) ELSE step

\* the failed call is made again
OnFailure_retry(step) == step

\* where _persist is after the store call of `step` raised: nothing in _persist,
\* _persist_line_run or _persist_events catches, and _try_create / _try_update
\* catch LineRunNotFoundError only
OnFailure(step) == "error"

\* ------------------------------------------------- state
VARIABLES
    span,           \* the Span object each worker persists (events are rewritten in place)
    received,       \* the span as it was decoded, before _persist
    pc,             \* where each worker is inside _persist
    call,           \* the LineRun object built by _persist_line_run and its upsert
    found,          \* outcome of ORMLineRun.get in _try_create / _try_update
    i,              \* loop index of _persist_events
    uuids,          \* number of ids each worker has drawn
    runs,           \* number of _persist calls started on each Span object
    line_runs,      \* table line_runs, rows in insertion order
    events,         \* table events
    spans,          \* table spans
    calls,          \* per worker: the store calls it has made, in order
    log,            \* the writes received by table line_runs, in order
    loaded          \* per worker: the Span read back from table spans with its events loaded

vars == <<span, received, pc, call, found, i, uuids, runs, line_runs, events, spans, calls, log, loaded>>

NoCall == [line_run |-> None, op |-> "none"]
NotLoaded == [status |-> "none", span |-> None, loads |-> 0, got |-> <<>>]

IsRoot(w) == received[w].parent_id = None
IdOf(w) == _determine_line_run_id(received[w])

Init ==
    \* workers are interchangeable: the spans are handed out in one order only
    /\ \E c \in [Workers -> DOMAIN SpanChoices] :
          /\ \A v, w \in Workers : v < w => c[v] <= c[w]
          /\ received = [w \in Workers |-> SpanInput(w, c[w])]
    \* a line run has one root span
    /\ \A v, w \in Workers :
          (v # w /\ received[v].parent_id = None /\ received[w].parent_id = None)
             => _determine_line_run_id(received[v]) # _determine_line_run_id(received[w])
    /\ span = received
    /\ pc = [w \in Workers |-> Enter(_persist[1], received[w])]
    /\ call = [w \in Workers |-> NoCall]
    /\ found = [w \in Workers |-> FALSE]
    /\ i = [w \in Workers |-> 1]
    /\ uuids = [w \in Workers |-> 0]
    /\ runs = [w \in Workers |-> 1]
    /\ line_runs = <<>>
    /\ events = {}
    /\ spans = {}
    /\ calls = [w \in Workers |-> <<>>]
    /\ log = <<>>
    /\ loaded = [w \in Workers |-> NotLoaded]

\* ------------------------------------------------- actions
\* every store call is one step of the worker that makes it

\* pc after ORMLineRun.get returned `f`
AfterGet(w, f) ==
    IF Upsert(call'[w], f, line_runs).call = "none"
    THEN Enter(StepAfter("_persist_line_run"), span[w]) ELSE "_try_write"

\* _persist_line_run: the LineRun object is built (LineRun._from_root_span /
\* _from_non_root_span); when building it reads no table, ORMLineRun.get of
\* _try_create / _try_update is the store call of this step
PersistLineRun(w) ==
    /\ pc[w] = "_persist_line_run"
    /\ IF _persist_line_run_raises(span[w])
       THEN /\ pc' = [pc EXCEPT ![w] = "error"]
            /\ UNCHANGED <<call, found, calls>>
       ELSE /\ call' = [call EXCEPT ![w] = _persist_line_run(span[w], line_runs)]
            /\ IF ReadsLineRuns(span[w])
               THEN /\ pc' = [pc EXCEPT ![w] = "_try_get"]
                    /\ calls' = [calls EXCEPT ![w] = Append(@, "line_run.get_with_run_and_line_number")]
                    /\ UNCHANGED found
               ELSE LET f == LineRunFound(line_runs, call'[w].line_run.line_run_id)
                    IN  /\ found' = [found EXCEPT ![w] = f]
                        /\ pc' = [pc EXCEPT ![w] = AfterGet(w, f)]
                        /\ calls' = [calls EXCEPT ![w] = Append(@, "line_run.get")]
    /\ i' = [i EXCEPT ![w] = 1]
    /\ UNCHANGED <<span, received, uuids, runs, line_runs, events, spans, log, loaded>>

\* _try_create / _try_update: ORMLineRun.get(line_run_id)
TryGet(w) ==
    /\ pc[w] = "_try_get"
    /\ call' = call
    /\ LET f == LineRunFound(line_runs, call[w].line_run.line_run_id)
       IN  /\ found' = [found EXCEPT ![w] = f]
           /\ pc' = [pc EXCEPT ![w] = AfterGet(w, f)]
    /\ calls' = [calls EXCEPT ![w] = Append(@, "line_run.get")]
    /\ UNCHANGED <<span, received, i, uuids, runs, line_runs, events, spans, log, loaded>>

\* _try_create / _try_update: persist() or _update() of the ORM object
TryWrite(w) ==
    /\ pc[w] = "_try_write"
    /\ LET r == Upsert(call[w], found[w], line_runs)
       IN  /\ line_runs' = r.tbl
           /\ calls' = [calls EXCEPT ![w] = Append(@, "line_run." \o r.call)]
           /\ log' = Append(log, [worker |-> w, call |-> r.call,
                                  line_run_id |-> call[w].line_run.line_run_id])
    /\ pc' = [pc EXCEPT ![w] = Enter(StepAfter("_persist_line_run"), span[w])]
    /\ UNCHANGED <<span, received, call, found, i, uuids, runs, events, spans, loaded>>

\* _persist_events: one iteration of the loop
PersistEvent(w) ==
    /\ pc[w] = "_persist_events"
    /\ i[w] <= Len(span[w].events)
    /\ uuids[w] < Len(UUIDs[w])
    /\ LET r == _persist_events(span[w], i[w], uuid4(w, uuids[w] + 1))
       IN  /\ events' = events \cup {r.row}
           /\ span' = [span EXCEPT ![w] = r.span]
    /\ uuids' = [uuids EXCEPT ![w] = @ + 1]
    /\ calls' = [calls EXCEPT ![w] = Append(@, "event.persist")]
    /\ IF i[w] < Len(span[w].events)
       THEN /\ i' = [i EXCEPT ![w] = @ + 1]
            /\ pc' = pc
       ELSE /\ i' = [i EXCEPT ![w] = 1]
            /\ pc' = [pc EXCEPT ![w] = StepAfter("_persist_events")]
    /\ UNCHANGED <<received, call, found, runs, line_runs, spans, log, loaded>>

\* self._to_orm_object().persist()
PersistSpan(w) ==
    /\ pc[w] = "persist_span"
    /\ spans' = spans \cup {_to_orm_object(span[w])}
    /\ calls' = [calls EXCEPT ![w] = Append(@, "span.persist")]
    /\ pc' = [pc EXCEPT ![w] = Enter(StepAfter("persist_span"), span[w])]
    /\ UNCHANGED <<span, received, call, found, i, uuids, runs, line_runs, events, log, loaded>>

\* a reader reads the row of a persisted span from table spans, builds the
\* Span from it and calls _load_events
ReadSpan(w) ==
    /\ pc[w] = "done"
    /\ loaded[w].status = "none"
    /\ \E obj \in spans :
          /\ obj.span_id = SpanIdOf(w)
          /\ LET r == _load_events_loop(_from_orm_object(obj), <<>>)
             IN  loaded' = [loaded EXCEPT ![w] =
                               [status |-> r.status, span |-> r.span, loads |-> 1, got |-> r.got]]
    /\ UNCHANGED <<span, received, pc, call, found, i, uuids, runs, line_runs, events, spans, calls, log>>

\* _load_events: one iteration of the loop, with its Event.get
LoadEvents(w) ==
    /\ loaded[w].status = "loading"
    /\ LET r == _load_events(loaded[w].span[1], loaded[w].got, events)
       IN  loaded' = [loaded EXCEPT ![w] =
                         [status |-> r.status, span |-> r.span, loads |-> @.loads, got |-> r.got]]
    /\ UNCHANGED <<span, received, pc, call, found, i, uuids, runs, line_runs, events, spans, calls, log>>

RECURSIVE SumRuns(_)
SumRuns(ws) == IF ws = {} THEN 0 ELSE LET w == CHOOSE v \in ws : TRUE IN runs[w] + SumRuns(ws \ {w})

\* _persist is called once more on the same Span object, by a caller that
\* submits it again after the spans have been processed
PersistAgain(w) ==
    /\ pc[w] = "done"
    /\ \A v \in Workers : runs[v] = 1 => pc[v] \in {"done", "error"}
    /\ SumRuns(Workers) < NumWorkers + MaxRepeats
    /\ runs' = [runs EXCEPT ![w] = @ + 1]
    /\ pc' = [pc EXCEPT ![w] = Enter(_persist[1], span[w])]
    /\ call' = [call EXCEPT ![w] = NoCall]
    /\ UNCHANGED <<span, received, found, i, uuids, line_runs, events, spans, calls, log, loaded>>

\* there is one reader, and it reads back one span
SingleReader(w) == \A v \in Workers \ {w} : loaded[v].status = "none"

Next ==
    \E w \in Workers :
        \/ PersistLineRun(w)
        \/ TryGet(w)
        \/ TryWrite(w)
        \/ PersistEvent(w)
        \/ PersistSpan(w)
        \/ SingleReader(w) /\ ReadSpan(w)
        \/ LoadEvents(w)

Spec == Init /\ [][Next]_vars

\* the workers, each allowed to persist its Span object again; nothing is read back
NextRepeat ==
    \E w \in Workers :
        \/ PersistLineRun(w)
        \/ TryGet(w)
        \/ TryWrite(w)
        \/ PersistEvent(w)
        \/ PersistSpan(w)
        \/ PersistAgain(w)

SpecRepeat == Init /\ [][NextRepeat]_vars

\* every _persist call has ended
Quiet == \A w \in Workers : pc[w] \in {"done", "error"}

\* the event ids drawn so far
DrawnIds == UNION {{uuid4(w, n) : n \in 1..uuids[w]} : w \in Workers}

\* the reader reads back one span, after the workers
OneReader(w) == Quiet /\ SingleReader(w)

\* _load_events is called again on the Span object the reader holds, up to
\* its first Event.get
Reload(w) ==
    /\ Quiet
    /\ loaded[w].status \in {"ok", "error"}
    /\ loaded[w].loads < MaxLoads
    /\ LET e == _load_events_loop(loaded[w].span[1], <<>>)
           r == IF e.status = "loading" THEN _load_events(loaded[w].span[1], <<>>, events) ELSE e
       IN  loaded' = [loaded EXCEPT ![w] =
                         [status |-> r.status, span |-> r.span, loads |-> @.loads + 1, got |-> r.got]]
    /\ UNCHANGED <<span, received, pc, call, found, i, uuids, runs, line_runs, events, spans, calls, log>>

\* an Event row of the span the reader holds goes missing (removed from
\* outside this code), before or between the Event.get calls of the reader
EventLost ==
    /\ Quiet
    /\ Cardinality(DrawnIds \ {r.event_id : r \in events}) < MaxLost
    /\ \E r \in events :
          /\ \E w \in Workers : loaded[w].status # "none" /\ r.span_id = SpanIdOf(w)
          /\ events' = events \ {r}
    /\ UNCHANGED <<span, received, pc, call, found, i, uuids, runs, line_runs, spans, calls, log, loaded>>

\* the workers, then the reader of a table events that may lose rows
NextRead ==
    \/ \E w \in Workers :
          \/ PersistLineRun(w)
          \/ TryGet(w)
          \/ TryWrite(w)
          \/ PersistEvent(w)
          \/ PersistSpan(w)
          \/ OneReader(w) /\ ReadSpan(w)
          \/ LoadEvents(w)
          \/ Reload(w)
    \/ EventLost

SpecRead == Init /\ [][NextRead]_vars

\* the store write worker w is about to make
PendingCall(w) ==
    CASE pc[w] = "_try_write" -> "line_run." \o Upsert(call[w], found[w], line_runs).call
      [] pc[w] = "_persist_events" -> "event.persist"
      [] OTHER -> "span.persist"

\* the store write worker w makes raises and leaves its table as it was
Fail(w) ==
    /\ pc[w] \in {"_try_write", "_persist_events", "persist_span"}
    /\ Cardinality({v \in Workers : pc[v] = "error"}) < MaxFailures
    /\ pc[w] = "_persist_events" => uuids[w] < Len(UUIDs[w])
    /\ calls' = [calls EXCEPT ![w] = Append(@, "fail." \o PendingCall(w))]
    /\ pc' = [pc EXCEPT ![w] = OnFailure(pc[w])]
    \* the id of an Event row is drawn (line 100) before the write that fails
    /\ uuids' = [uuids EXCEPT ![w] = IF pc[w] = "_persist_events" THEN @ + 1 ELSE @]
    /\ UNCHANGED <<span, received, call, found, i, runs, line_runs, events, spans, log, loaded>>

\* the workers with store calls that may fail; nothing is read back
NextFail ==
    \E w \in Workers :
        \/ PersistLineRun(w)
        \/ TryGet(w)
        \/ TryWrite(w)
        \/ PersistEvent(w)
        \/ PersistSpan(w)
        \/ Fail(w)

SpecFail == Init /\ [][NextFail]_vars

TypeOK ==
    /\ \A w \in Workers : pc[w] \in {"_persist_line_run", "_try_get", "_try_write", "_persist_events",
                                     "persist_span", "done", "error"}
    /\ \A w \in Workers : runs[w] \in 1..(1 + MaxRepeats)

\* ------------------------------------------------- vocabulary of the properties
LineRunIds == {_determine_line_run_id(received[w]) : w \in Workers}

\* the LineRun values derived from the root span as it was received
RootDerived(w) == _from_root_span(received[w], line_runs)

SameOn(fields, r1, r2) == \A f \in fields : r1[f] = r2[f]

PlaceholderValues ==
    [root_span_id |-> None, inputs |-> None, outputs |-> None, end_time |-> None,
     status |-> RUNNING_LINE_RUN_STATUS, duration |-> None, name |-> None, kind |-> None,
     cumulative_token_count |-> None]

\* worker w has written to table line_runs
HasWritten(w) == \E n \in 1..Len(calls[w]) : calls[w][n] \in {"line_run.create", "line_run.update"}
HasCalled(w, c) == \E n \in 1..Len(calls[w]) : calls[w][n] = c
Count(w, c) == Cardinality({n \in 1..Len(calls[w]) : calls[w][n] = c})

\* the step is a store call of worker w
StepOf(w) == calls'[w] # calls[w]

LogOf(id, c) == {n \in 1..Len(log) : log[n].line_run_id = id /\ log[n].call = c}

\* ------------------------------------------------- C1
\* C1: when every span has been processed, table line_runs holds exactly one
\* row for each line_run_id the spans resolve to, whatever the interleaving.
C1_ExactlyOneRow ==
    (\A w \in Workers : pc[w] = "done")
        => \A id \in LineRunIds : Cardinality(LineRunIdx(line_runs, id)) = 1

\* ------------------------------------------------- C2
RootFields == {"status", "end_time", "duration", "inputs", "outputs"}

\* C2: once the root span of a line run has been processed, the stored LineRun
\* (the row ORMLineRun.get returns) has status, end_time, duration, inputs and
\* outputs equal to the values derived from the root span, in every later state.
C2_RootPrecedence ==
    \A w \in Workers :
        (IsRoot(w) /\ pc[w] = "done")
            => /\ LineRunFound(line_runs, IdOf(w))
               /\ SameOn(RootFields, ORMLineRun_get(line_runs, IdOf(w)), RootDerived(w))

\* ------------------------------------------------- C3
OwnedFields == {"status", "duration", "inputs", "outputs", "cumulative_token_count"}

C3_State ==
    \A n \in 1..Len(line_runs) :
        \/ SameOn(OwnedFields, line_runs[n], PlaceholderValues)
        \/ \E w \in Workers :
              /\ IsRoot(w)
              /\ IdOf(w) = line_runs[n].line_run_id
              /\ HasWritten(w)
              /\ SameOn(OwnedFields, line_runs[n], RootDerived(w))

C3_Step ==
    \A w \in Workers :
        (~IsRoot(w) /\ StepOf(w))
            => /\ Len(line_runs') >= Len(line_runs)
               /\ \A n \in 1..Len(line_runs) : line_runs'[n] = line_runs[n]
               /\ \A n \in (Len(line_runs) + 1)..Len(line_runs') :
                     SameOn(OwnedFields, line_runs'[n], PlaceholderValues)

\* C3: status, duration, inputs, outputs and cumulative_token_count of every
\* stored LineRun are either the placeholder values or the values written by
\* the root span of that line_run_id; a step of a non-root span changes no
\* existing row and adds only rows that carry the placeholder values.
C3_RootOnlyWrites == []C3_State /\ [][C3_Step]_vars

\* a non-root span has created a row for an id whose root span has written too
C3_Witness ==
    \E v, w \in Workers :
        /\ IsRoot(v) /\ ~IsRoot(w) /\ IdOf(v) = IdOf(w)
        /\ HasWritten(v) /\ HasCalled(w, "line_run.create")

\* ------------------------------------------------- C4
\* C4: for each line_run_id table line_runs receives at most one create, then
\* at most one update, and no update before the create.
C4_OneCreateOneUpdate ==
    \A id \in LineRunIds :
        /\ Cardinality(LogOf(id, "create")) <= 1
        /\ Cardinality(LogOf(id, "update")) <= 1
        /\ \A u \in LogOf(id, "update") : \E c \in LogOf(id, "create") : c < u

\* ------------------------------------------------- C5
Rank(c) ==
    CASE c = "event.persist" -> 2
      [] c = "span.persist" -> 3
      [] OTHER -> 1

\* C5: each worker's store calls come in the order line-run upsert, Event
\* writes, Span write: the upsert is complete (its row is stored) before the
\* first Event is written, all Events of the span are written before the Span
\* is, _persist never fails on the payload lookup, and the LineRun object of a
\* root span carries the inputs/outputs decoded from the received payloads.
C5_StepOrder ==
    \A w \in Workers :
        /\ pc[w] # "error"
        /\ \A m, n \in 1..Len(calls[w]) : m < n => Rank(calls[w][m]) <= Rank(calls[w][n])
        /\ HasCalled(w, "event.persist")
              => /\ HasCalled(w, "line_run.get")
                 /\ LineRunFound(line_runs, IdOf(w))
                 /\ IsRoot(w) => HasWritten(w)
        /\ HasCalled(w, "span.persist")
              => /\ HasCalled(w, "line_run.get")
                 /\ Count(w, "event.persist") = Len(received[w].events)
        /\ (IsRoot(w) /\ HasWritten(w))
              => /\ call[w].line_run.inputs = _get_inputs_from_span(received[w])
                 /\ call[w].line_run.outputs = _get_outputs_from_span(received[w])

\* a root span with an inputs and an output event has been persisted completely
C5_Witness ==
    \E w \in Workers :
        /\ IsRoot(w) /\ pc[w] = "done"
        /\ Len(received[w].events) = 2
        /\ call[w].line_run.inputs # None
        /\ Count(w, "event.persist") = 2

\* ------------------------------------------------- C6
IsGetStep(w) == Count(w, "line_run.get")' > Count(w, "line_run.get")

C6_Step ==
    \A w \in Workers :
        (~IsRoot(w) /\ StepOf(w))
            => /\ IsGetStep(w)
                    => /\ line_runs' = line_runs
                       /\ found'[w] = LineRunFound(line_runs, IdOf(w))
                       /\ (pc'[w] = "_try_write") = ~LineRunFound(line_runs, IdOf(w))
               /\ (HasCalled(w, "line_run.get") /\ found[w]) => line_runs' = line_runs
               /\ pc[w] # "_try_write" => line_runs' = line_runs
               /\ pc[w] = "_try_write"
                    => /\ ~found[w]
                       /\ line_runs' = Append(line_runs, call[w].line_run)
                       /\ call[w].line_run.line_run_id = IdOf(w)
                       /\ SameOn(UpdatedFields, call[w].line_run, PlaceholderValues)
                       /\ Count(w, "line_run.create")' = 1

\* C6: a non-root span whose lookup finds a row of its line_run_id leaves table
\* line_runs unchanged during its whole processing; one whose lookup finds none
\* adds exactly one row, the placeholder, and changes no other row.
C6_CreateIfAbsent == [][C6_Step]_vars

\* a non-root span found the row of its line run and finished without a write
C6_Witness ==
    \E w \in Workers :
        /\ ~IsRoot(w) /\ pc[w] = "done" /\ found[w]
        /\ ~HasWritten(w)
        /\ LineRunFound(line_runs, IdOf(w))

\* ------------------------------------------------- C7
OtherFields == DOMAIN PlaceholderValues

C7_Step ==
    \A w \in Workers :
        (IsRoot(w) /\ StepOf(w))
            => /\ IsGetStep(w)
                    => /\ line_runs' = line_runs
                       /\ found'[w] = LineRunFound(line_runs, IdOf(w))
                       /\ pc'[w] = "_try_write"
               /\ pc[w] = "_try_write"
                    => /\ found[w]
                            => /\ Len(line_runs') = Len(line_runs)
                               /\ LineRunIdx(line_runs, IdOf(w)) # {}
                               /\ \A n \in 1..Len(line_runs) :
                                     IF line_runs[n].line_run_id = IdOf(w)
                                     THEN /\ SameOn(UpdatedFields, line_runs'[n], RootDerived(w))
                                          /\ SameOn(DOMAIN line_runs[n] \ UpdatedFields,
                                                    line_runs'[n], line_runs[n])
                                     ELSE line_runs'[n] = line_runs[n]
                       /\ ~found[w]
                            => /\ line_runs' = Append(line_runs, call[w].line_run)
                               /\ call[w].line_run.line_run_id = IdOf(w)
                               /\ SameOn(UpdatedFields, call[w].line_run, RootDerived(w))
                       /\ \E n \in LineRunIdx(line_runs', IdOf(w)) :
                             SameOn(UpdatedFields, line_runs'[n], RootDerived(w))

\* C7: a root span always writes: when its lookup finds rows of its
\* line_run_id they are overwritten with the values built from the root span,
\* when it finds none a row with those values is created; after the write a
\* row of the id holds the root-derived values.
C7_UpdateElseCreate == [][C7_Step]_vars

\* a root span has overwritten the placeholder a non-root span created
C7_Witness ==
    \E v, w \in Workers :
        /\ IsRoot(w) /\ HasCalled(w, "line_run.update")
        /\ ~IsRoot(v) /\ HasCalled(v, "line_run.create") /\ IdOf(v) = IdOf(w)
        /\ SameOn(UpdatedFields, ORMLineRun_get(line_runs, IdOf(w)), RootDerived(w))

\* ------------------------------------------------- C8
RowKind(row) ==
    IF SameOn(UpdatedFields, row, PlaceholderValues) THEN "placeholder"
    ELSE IF \E w \in Workers : /\ IsRoot(w) /\ IdOf(w) = row.line_run_id
                               /\ SameOn(UpdatedFields, row, RootDerived(w))
         THEN "authoritative"
         ELSE "mixed"

LineRunState(tbl, id) ==
    IF ~LineRunFound(tbl, id) THEN "absent" ELSE RowKind(ORMLineRun_get(tbl, id))

Lifecycle == {<<"absent", "placeholder">>, <<"absent", "authoritative">>,
              <<"placeholder", "authoritative">>}

\* a step that leaves table line_runs as it is changes no row's state
C8_Step ==
    \/ line_runs' = line_runs
    \/ /\ \A id \in LineRunIds :
             \/ LineRunState(line_runs', id) = LineRunState(line_runs, id)
             \/ <<LineRunState(line_runs, id), LineRunState(line_runs', id)>> \in Lifecycle
       /\ Len(line_runs') >= Len(line_runs)
       /\ \A n \in 1..Len(line_runs) :
             /\ line_runs'[n].line_run_id = line_runs[n].line_run_id
             /\ RowKind(line_runs[n]) = "authoritative" => line_runs'[n] = line_runs[n]
       /\ \A n \in 1..Len(line_runs') : RowKind(line_runs'[n]) # "mixed"

\* C8: the stored state of a line_run_id moves only absent -> placeholder ->
\* authoritative or absent -> authoritative; a row is never removed and a row
\* holding the root-derived values is never changed again.
C8_Lifecycle == [][C8_Step]_vars

\* the root span created the row and a non-root span processed later left it authoritative
C8_Witness ==
    \E v, w \in Workers :
        /\ IsRoot(v) /\ ~IsRoot(w) /\ IdOf(v) = IdOf(w)
        /\ HasCalled(v, "line_run.create")
        /\ pc[w] = "done" /\ found[w] /\ ~HasWritten(w)
        /\ LineRunState(line_runs, IdOf(w)) = "authoritative"

\* ------------------------------------------------- C9
EventIdOf(event) == event["attributes"][SPAN_EVENTS_ATTRIBUTES_EVENT_ID]

\* C9: after the event-persistence step every event of the in-memory span has
\* the event id as its only attribute, Event.get of that id returns the event
\* as it was received, and _load_events of the stored span returns the
\* received events in their order.
C9_RoundTrip ==
    \A w \in Workers :
        /\ loaded[w].status # "error"
        /\ pc[w] \in {"persist_span", "done"}
              => /\ Len(span[w].events) = Len(received[w].events)
                 /\ \A n \in 1..Len(span[w].events) :
                       /\ DOMAIN span[w].events[n]["attributes"] = {SPAN_EVENTS_ATTRIBUTES_EVENT_ID}
                       /\ Cardinality({r \in events : r.event_id = EventIdOf(span[w].events[n])}) = 1
                       /\ Event_get(events, EventIdOf(span[w].events[n])) = received[w].events[n]
        /\ loaded[w].status = "ok" => loaded[w].span[1].events = received[w].events

\* a span with two events was persisted and read back with its events loaded
C9_Witness ==
    \E w \in Workers :
        /\ loaded[w].status = "ok"
        /\ Len(received[w].events) = 2
        /\ Len(loaded[w].span[1]._external_event_ids) = 2

\* ------------------------------------------------- C10
Externalized(s) ==
    /\ Len(s.events) > 0
    /\ \A n \in 1..Len(s.events) : DOMAIN s.events[n]["attributes"] = {SPAN_EVENTS_ATTRIBUTES_EVENT_ID}

\* C10 (as claimed): a step of _persist on a Span whose events are already
\* externalized creates no Event record and leaves the event references as
\* they are.
C10_NeverTwice ==
    [][\A w \in Workers :
          (Externalized(span[w]) /\ StepOf(w))
              => /\ events' = events
                 /\ span'[w].events = span[w].events]_vars

EventIds(tbl) == {r.event_id : r \in tbl}

C10_State ==
    \A w \in Workers :
        /\ span[w]._external_event_ids = <<>>
        /\ Cardinality({r \in events : r.span_id = SpanIdOf(w)}) = Count(w, "event.persist")

C10_Step ==
    \A w \in Workers :
        (pc[w] = "_persist_events" /\ StepOf(w))
            => \E r \in events' :
                  /\ r.event_id \notin EventIds(events)
                  /\ events' = events \cup {r}
                  /\ r.data = json_dumps(span[w].events[i[w]])
                  /\ span'[w].events[i[w]]["attributes"] =
                        [k \in {SPAN_EVENTS_ATTRIBUTES_EVENT_ID} |-> r.event_id]

\* C10 (amended): _persist never fills _external_event_ids and the
\* event-persistence step is not guarded by it: every iteration writes one new
\* Event record under a fresh id, holding the event as the Span has it then,
\* and replaces the event's attributes with that id, also when the event
\* already held a reference.
C10_EveryRunExternalizes == []C10_State /\ [][C10_Step]_vars

\* a Span with events was persisted twice and each run wrote its Event records
C10_Witness ==
    \E w \in Workers :
        /\ runs[w] = 2 /\ pc[w] = "done"
        /\ Len(received[w].events) > 0
        /\ Count(w, "event.persist") = 2 * Len(received[w].events)

\* ------------------------------------------------- C11
ReferenceOnly(event) == DOMAIN event["attributes"] = {SPAN_EVENTS_ATTRIBUTES_EVENT_ID}

\* C11: every row of table spans holds only event references: each of its
\* events has the event id as its single attribute, and the row has the
\* events of the span it was written for.
C11_StoredSpansHoldReferences ==
    \A obj \in spans :
        /\ obj.events # None => \A n \in 1..Len(obj.events[1]) : ReferenceOnly(obj.events[1][n])
        /\ \A w \in Workers :
              obj.span_id = SpanIdOf(w)
                 => Len(_from_orm_object(obj).events) = Len(received[w].events)

\* a span received with two payload events is stored
C11_Witness ==
    \E obj \in spans : \E w \in Workers :
        /\ obj.span_id = SpanIdOf(w)
        /\ Len(received[w].events) = 2
        /\ obj.events # None
        /\ \A n \in 1..2 : Has(received[w].events[n]["attributes"], SPAN_EVENTS_ATTRIBUTE_PAYLOAD)

\* ------------------------------------------------- C12
C12_State ==
    \A w \in Workers :
        /\ pc[w] # "error"
        /\ pc[w] = "done"
              => /\ HasCalled(w, "span.persist")
                 /\ Count(w, "event.persist") = Len(received[w].events)
                 /\ \E obj \in spans : obj.span_id = SpanIdOf(w)

C12_Step ==
    \A w \in Workers :
        StepOf(w)
            => /\ (IsGetStep(w) /\ ~LineRunFound(line_runs, IdOf(w))) => pc'[w] = "_try_write"
               /\ (pc[w] = "_try_write" /\ ~found[w])
                    => /\ Count(w, "line_run.create")' = Count(w, "line_run.create") + 1
                       /\ LineRunFound(line_runs', IdOf(w))
                       /\ pc'[w] \in {"_persist_events", "persist_span"}

\* C12: a lookup that finds no LineRun row is followed by a create, for root
\* and non-root spans alike, and the call goes on to write its events and its
\* span; no call of _persist ends in error.
C12_NotFoundNotSurfaced == []C12_State /\ [][C12_Step]_vars

\* a root and a non-root span both found no row, created one and finished
C12_Witness ==
    \E v, w \in Workers :
        /\ IsRoot(v) /\ ~IsRoot(w)
        /\ ~found[v] /\ ~found[w]
        /\ HasCalled(v, "line_run.create") /\ HasCalled(w, "line_run.create")
        /\ pc[v] = "done" /\ pc[w] = "done"

\* ------------------------------------------------- C16
FirstWriter(id) ==
    log[CHOOSE n \in 1..Len(log) :
            /\ log[n].line_run_id = id
            /\ \A m \in 1..(n - 1) : log[m].line_run_id # id].worker

\* C16: the stored LineRun of an id (the row ORMLineRun.get returns) has the
\* start_time of the first span that wrote it and, when its duration is set,
\* duration = end_time - start_time of that row.
C16_DurationOfRow ==
    \A id \in LineRunIds :
        LineRunFound(line_runs, id)
            => LET row == ORMLineRun_get(line_runs, id)
               IN  /\ row.start_time = received[FirstWriter(id)].start_time
                   /\ row.duration # None => row.duration[1] = row.end_time[1] - row.start_time

\* ------------------------------------------------- C17
ExpectedLineRunId(s) ==
    IF LINE_RUN_ID \in DOMAIN s.attributes THEN s.attributes[LINE_RUN_ID] ELSE s.trace_id

\* C17: the LineRun object built for a span, and every write the span makes
\* to table line_runs, carries the span's line_run_id attribute when it has
\* one and its trace_id otherwise.
C17_LineRunIdentity ==
    /\ \A w \in Workers :
          call[w].op # "none" => call[w].line_run.line_run_id = ExpectedLineRunId(received[w])
    /\ \A n \in 1..Len(log) : log[n].line_run_id = ExpectedLineRunId(received[log[n].worker])
    /\ \A n \in 1..Len(line_runs) :
          \E w \in Workers : /\ HasWritten(w)
                             /\ line_runs[n].line_run_id = ExpectedLineRunId(received[w])
                             /\ line_runs[n].trace_id = received[w].trace_id

\* a span of trace t2 with the attribute t1 has created the row of line run t1
C17_Witness ==
    \E w \in Workers :
        /\ Has(received[w].attributes, LINE_RUN_ID)
        /\ received[w].attributes[LINE_RUN_ID] # received[w].trace_id
        /\ HasCalled(w, "line_run.create")
        /\ \E n \in 1..Len(line_runs) :
              /\ line_runs[n].line_run_id = received[w].attributes[LINE_RUN_ID]
              /\ line_runs[n].trace_id = received[w].trace_id

\* ------------------------------------------------- C18
ParentCase(s) ==
    IF REFERENCED_LINE_RUN_ID \in DOMAIN s.attributes THEN 1
    ELSE IF REFERENCED_BATCH_RUN_ID \in DOMAIN s.attributes THEN 2
    ELSE 3

StoredFor(tbl, run, line_number) ==
    {n \in 1..Len(tbl) : tbl[n].run = <<run>> /\ tbl[n].line_number = <<line_number>>}

ExpectedParent(s, tbl) ==
    CASE ParentCase(s) = 1 -> <<s.attributes[REFERENCED_LINE_RUN_ID]>>
      [] ParentCase(s) = 2 ->
            LET idx == StoredFor(tbl, s.attributes[REFERENCED_BATCH_RUN_ID], s.attributes[LINE_NUMBER])
            IN  IF idx = {} THEN <<>>
                ELSE <<tbl[CHOOSE n \in idx : \A m \in idx : n <= m].line_run_id>>
      [] OTHER -> <<>>

IsBuildStep(w) == call[w].op = "none" /\ call'[w].op # "none"

C18_Step ==
    \A w \in Workers :
        IsBuildStep(w)
            => /\ call'[w].line_run.parent_id = ExpectedParent(received[w], line_runs)
               /\ (Count(w, "line_run.get_with_run_and_line_number")'
                      > Count(w, "line_run.get_with_run_and_line_number"))
                     = (ParentCase(received[w]) = 2)

\* C18: the parent id of the LineRun object built for a span is the
\* referenced line run id when the span has one; otherwise, for a span with a
\* referenced batch run id, the id of the row stored for that run and line
\* number at that moment, or none; otherwise none.  Table line_runs is read
\* for it only in the second case.
C18_ParentLinkage == [][C18_Step]_vars

\* all three cases were built, the second one with a stored row to find
C18_Witness ==
    \E u, v \in Workers :
        /\ ParentCase(received[u]) = 2 /\ call[u].op # "none" /\ call[u].line_run.parent_id # None
        /\ ParentCase(received[v]) = 3 /\ call[v].op # "none" /\ call[v].line_run.parent_id = None

\* the referenced line run id wins over the referenced batch run id
C18_WitnessPriority ==
    \E w \in Workers :
        /\ ParentCase(received[w]) = 1
        /\ Has(received[w].attributes, REFERENCED_BATCH_RUN_ID)
        /\ call[w].op # "none"
        /\ call[w].line_run.parent_id = Some("lr0")
        /\ StoredFor(line_runs, "run1", 2) # {}

\* ------------------------------------------------- C19
ExpectedTokens(s) ==
    LET a == s.attributes
        val(k) == IF k \in DOMAIN a THEN a[k] ELSE 0
    IN  IF TOTAL_TOKEN_COUNT \in DOMAIN a /\ a[TOTAL_TOKEN_COUNT] > 0
        THEN <<[completion |-> val(COMPLETION_TOKEN_COUNT), prompt |-> val(PROMPT_TOKEN_COUNT),
                total |-> a[TOTAL_TOKEN_COUNT]]>>
        ELSE <<>>

\* C19: the LineRun object built from a root span has a cumulative_token_count
\* exactly when the span's total token attribute is positive, then made of the
\* completion, prompt and total attributes with 0 for an absent one; a row a
\* root span created carries the same.
C19_TokenAggregation ==
    \A w \in Workers :
        (IsRoot(w) /\ call[w].op # "none")
            => /\ call[w].line_run.cumulative_token_count = ExpectedTokens(received[w])
               /\ (call[w].line_run.cumulative_token_count # None)
                     = (IntAttr(received[w], TOTAL_TOKEN_COUNT) > 0)
               /\ HasWritten(w)
                     => \E n \in 1..Len(line_runs) :
                           /\ line_runs[n].root_span_id = Some(SpanIdOf(w))
                           /\ line_runs[n].cumulative_token_count = ExpectedTokens(received[w])

\* one root span with a positive total and no completion count, one with total 0
C19_Witness ==
    \E v, w \in Workers :
        /\ IsRoot(v) /\ HasWritten(v)
        /\ ~Has(received[v].attributes, COMPLETION_TOKEN_COUNT)
        /\ call[v].line_run.cumulative_token_count = Some([completion |-> 0, prompt |-> 5, total |-> 8])
        /\ IsRoot(w) /\ HasWritten(w)
        /\ Has(received[w].attributes, TOTAL_TOKEN_COUNT)
        /\ call[w].line_run.cumulative_token_count = None

\* ------------------------------------------------- C13
Failures == {"fail.line_run.create", "fail.line_run.update", "fail.event.persist", "fail.span.persist"}

LastCall(w) == IF calls[w] = <<>> THEN "none" ELSE calls[w][Len(calls[w])]

\* attempts of worker w at the store call c, failed ones included
Attempts(w, c) == Count(w, c) + Count(w, "fail." \o c)

C13_State ==
    \A w \in Workers :
        /\ \A n \in 1..Len(calls[w]) :
              calls[w][n] \in Failures => (n = Len(calls[w]) /\ pc[w] = "error")
        /\ Attempts(w, "line_run.create") + Attempts(w, "line_run.update") <= 1
        /\ Attempts(w, "event.persist") <= Len(received[w].events)
        /\ Attempts(w, "span.persist") <= 1

C13_Step ==
    \A w \in Workers :
        /\ pc[w] = "error" => (pc'[w] = "error" /\ calls'[w] = calls[w] /\ span'[w] = span[w])
        /\ (StepOf(w) /\ LastCall(w)' \in Failures)
              => (pc'[w] = "error" /\ UNCHANGED <<line_runs, events, spans>>)

\* C13: a store call of _persist that fails ends the call in error: it is the
\* last store call of that _persist, no later step is performed, and no
\* store write is attempted more than once (one LineRun write, one Event
\* write per event, one Span write).
C13_FailurePropagates == []C13_State /\ [][C13_Step]_vars

\* an Event write failed after the LineRun write and the first Event write
C13_Witness ==
    \E w \in Workers :
        /\ pc[w] = "error"
        /\ LastCall(w) = "fail.event.persist"
        /\ HasWritten(w)
        /\ Count(w, "event.persist") = 1
        /\ ~HasCalled(w, "span.persist")

\* ------------------------------------------------- C14
\* C14: when the Event write or the Span write of a _persist call has
\* failed, table line_runs holds a row of that span's line_run_id.
C14_LineRunSurvives ==
    \A w \in Workers :
        (pc[w] = "error" /\ LastCall(w) \in {"fail.event.persist", "fail.span.persist"})
            => LineRunFound(line_runs, IdOf(w))

\* the Span write failed: the LineRun row it created is stored, its span is not
C14_Witness ==
    \E w \in Workers :
        /\ pc[w] = "error"
        /\ LastCall(w) = "fail.span.persist"
        /\ HasCalled(w, "line_run.create")
        /\ LineRunFound(line_runs, IdOf(w))
        /\ ~\E obj \in spans : obj.span_id = SpanIdOf(w)

\* ------------------------------------------------- C15
\* the event id the next Event.get of the reader of w asks for, if it makes one:
\* inside the loop, or on calling _load_events again
NextGet(w) ==
    LET ld == loaded[w]
        at(n) == <<ld.span[1].events[n]["attributes"][SPAN_EVENTS_ATTRIBUTES_EVENT_ID]>>
    IN  IF ld.status = "loading" THEN at(Len(ld.got) + 1)
        ELSE IF /\ ld.status \in {"ok", "error"}
                /\ Len(ld.span[1].events) > 0
                /\ Has(ld.span[1].events[1]["attributes"], SPAN_EVENTS_ATTRIBUTES_EVENT_ID)
             THEN at(1)
             ELSE <<>>

C15_Step ==
    \A w \in Workers :
        (/\ loaded'[w] # loaded[w]
         /\ NextGet(w) # <<>>
         /\ NextGet(w)[1] \notin EventIds(events))
            => /\ loaded'[w].status = "error"
               /\ loaded'[w].span[1].events = loaded[w].span[1].events
               /\ \A n \in 1..Len(loaded'[w].span[1].events) :
                     ReferenceOnly(loaded'[w].span[1].events[n])

C15_State ==
    \A w \in Workers :
        loaded[w].status = "ok" => loaded[w].span[1].events = received[w].events

\* C15: an Event.get of _load_events for an id that is not in table events ends
\* the call in an error and leaves the span's events unresolved; a call that
\* returns has read every event of the span from the table.
C15_DanglingReferenceRaises == []C15_State /\ [][C15_Step]_vars

\* a span read back after one of its Event rows went missing: the load raised
\* at that event
C15_Witness ==
    \E w \in Workers :
        LET s == loaded[w].span[1]
        IN  /\ loaded[w].status = "error"
            /\ loaded[w].loads = 1
            /\ Len(s._external_event_ids) > 0
            /\ s._external_event_ids[Len(s._external_event_ids)] \notin EventIds(events)
            /\ \A n \in 1..Len(s.events) : ReferenceOnly(s.events[n])

\* ------------------------------------------------- C20
\* the event ids of the row of table spans written for worker w, in event order
RowIds(w) ==
    LET s == _from_orm_object(CHOOSE obj \in spans : obj.span_id = SpanIdOf(w))
    IN  [n \in 1..Len(s.events) |-> EventIdOf(s.events[n])]

\* C20: serializing a Span object gives the event reference ids, one per
\* event in event order: for the persisted Span object, whose events hold
\* references, and for the Span object read back, after every call of
\* _load_events made on it.
C20_ExternalEventDataUris ==
    \A w \in Workers :
        /\ pc[w] = "done"
              => /\ ~_to_rest_object_raises(span[w])
                 /\ _to_rest_object(span[w]).external_event_data_uris = RowIds(w)
        /\ loaded[w].status \in {"ok", "error"}
              => /\ ~_to_rest_object_raises(loaded[w].span[1])
                 /\ _to_rest_object(loaded[w].span[1]).external_event_data_uris = RowIds(w)

\* ------------------------------------------------- C21
\* C21: every row of table line_runs is a placeholder or authoritative, never
\* a mixture: root_span_id is none exactly when status is Running and exactly
\* when end_time and duration are none, and a row without root_span_id has no
\* inputs, outputs or cumulative_token_count.
C21_PlaceholderOrAuthoritative ==
    \A n \in 1..Len(line_runs) :
        LET row == line_runs[n]
        IN  /\ (row.root_span_id = <<>>) = (row.status = "Running")
            /\ (row.root_span_id = <<>>) = (row.end_time = <<>>)
            /\ (row.root_span_id = <<>>) = (row.duration = <<>>)
            /\ row.root_span_id = <<>>
                  => (row.inputs = <<>> /\ row.outputs = <<>> /\ row.cumulative_token_count = <<>>)

\* the placeholder a non-root span created has been updated by the root span
C21_Witness ==
    \E n \in 1..Len(line_runs) : \E v, w \in Workers :
        /\ ~IsRoot(v) /\ HasCalled(v, "line_run.create")
        /\ IsRoot(w) /\ HasCalled(w, "line_run.update")
        /\ IdOf(v) = line_runs[n].line_run_id
        /\ IdOf(w) = line_runs[n].line_run_id
        /\ line_runs[n].root_span_id = Some(SpanIdOf(w))
        /\ line_runs[n].status # "Running"
        /\ line_runs[n].duration # <<>>

\* ------------------------------------------------- C22
\* the event ids a row of table spans refers to
RefsOf(obj) ==
    IF obj.events = <<>> THEN {}
    ELSE {obj.events[1][n]["attributes"][SPAN_EVENTS_ATTRIBUTES_EVENT_ID] :
             n \in {m \in 1..Len(obj.events[1]) :
                       SPAN_EVENTS_ATTRIBUTES_EVENT_ID \in DOMAIN obj.events[1][m]["attributes"]}}

C22_State ==
    /\ \A obj \in spans : \A id \in RefsOf(obj) :
          /\ Cardinality({r \in events : r.event_id = id}) = 1
          /\ \A r \in events :
                r.event_id = id => (r.trace_id = obj.trace_id /\ r.span_id = obj.span_id)
    /\ \A r1, r2 \in events : r1.event_id = r2.event_id => r1 = r2

C22_Step == \A r \in events : r \in events'

\* C22: every event id a row of table spans refers to is the id of exactly
\* one row of table events, a row of the same trace_id and span_id; no two
\* rows of table events have the same id; a row of table events is never
\* changed or removed.
C22_ReferentialIntegrity == []C22_State /\ [][C22_Step]_vars

\* two span rows refer to three stored Event rows between them
C22_Witness ==
    \E o1, o2 \in spans :
        /\ o1.span_id # o2.span_id
        /\ Cardinality(RefsOf(o1)) = 2
        /\ Cardinality(RefsOf(o2)) = 1
        /\ RefsOf(o1) \cup RefsOf(o2) \subseteq {r.event_id : r \in events}

====
